---- MODULE Spec2Model ----
(***************************************************************************)
(* Model of the frame pipeline of beta125tryforfinal3.cpp: the capture     *)
(* loop of main (producer), the encoderThread lambda (consumer), the       *)
(* FrameQueue and FramePool classes and the SIGINT handler (Spec,          *)
(* FairSpec); of the pacer of the capture loop against the clock           *)
(* (PacerSpec); and of the packet loop of audio09i2.cpp (AudioSpec).       *)
(***************************************************************************)
EXTENDS Integers, Sequences, FiniteSets, TLC

\* ---- bounds of the model ----
PoolSize == 2      \* the size argument of FramePool's constructor
MaxCounter == 4    \* cap on frameCounter
MaxSkip == 1       \* largest skipCount the pacer's catch-up branch yields
Lookahead == 1     \* most frames the encoder keeps buffered between calls
TicksPerMs == 2    \* clock readings per millisecond
MaxClockMs == 140  \* the clock is followed up to this many milliseconds
MaxChannels == 2   \* most channels of the audio mix format
MaxPacketFrames == 2  \* most frames in one audio capture packet
MaxAudioFrames == 4   \* cap on the audio frames captured in a run

\* ---- program constants ----
targetFPS == 30
WavHeaderRest == 36

Frames == 1..PoolSize
NoFrame == 0

VARIABLES
    stopRecording,  \* volatile bool stopRecording
    q,              \* FrameQueue::q, a sequence of FrameItem
    mtxHeld,        \* FrameQueue::mtx is held by the encoder thread inside pop()
    freeFrames,     \* FramePool::freeFrames
    pcMain,         \* position of main in the capture loop and after it
    frameYUV,       \* main's local frameYUV (NoFrame when it holds none)
    frameCounter,   \* main's local frameCounter
    pcEnc,          \* position of the encoder thread
    item,           \* the frame the encoder thread popped and has not released
    popRes,         \* value returned by the last FrameQueue::pop
    sendFailed,     \* avcodec_send_frame returned an error
    iterOutcome,    \* history: how main's last capture iteration ended
    pushedHist,     \* history: pts of every frame pushed, in push order
    poppedHist,     \* history: pts of every frame popped, in pop order
    encBuf,         \* codecCtx: pts of the frames accepted and not yet emitted
    written,        \* outCtx: pts of the packets written to the container
    writeFailed,    \* av_interleaved_write_frame returned an error
    anyDrop,        \* history: some capture iteration ended without a push
    clock,          \* high_resolution_clock, in ticks since nextFrameTime was set
    now,            \* main's local now of the last pacer step
    nextFrameTime,  \* main's local nextFrameTime
    skipCount,      \* main's local skipCount (0 when the branch was not taken)
    behind,         \* history: the last pacer step took the catch-up branch
    prevDeadline,   \* history: nextFrameTime before the last pacer step
    counterBefore,  \* history: frameCounter before the last pacer step
    pcAudio,        \* position of the audio recorder's main
    nChannels,      \* pwfx->nChannels
    nBlockAlign,    \* pwfx->nBlockAlign
    recording,      \* the audio recorder's local recording
    audioDataSize,  \* audioData.size()
    framesCaptured, \* history: sum of numFrames over the packets captured
    hdrDataSize,    \* WAVHeader::dataSize as last written
    hdrChunkSize    \* WAVHeader::chunkSize as last written

vars == <<stopRecording, q, mtxHeld, freeFrames, pcMain, frameYUV, frameCounter,
          pcEnc, item, popRes, sendFailed, iterOutcome, pushedHist, poppedHist,
          encBuf, written, writeFailed, anyDrop,
          clock, now, nextFrameTime, skipCount, behind, prevDeadline, counterBefore,
          pcAudio, nChannels, nBlockAlign, recording, audioDataSize, framesCaptured,
          hdrDataSize, hdrChunkSize>>

pacerVars == <<clock, now, nextFrameTime, skipCount, behind, prevDeadline,
               counterBefore>>
audioVars == <<pcAudio, nChannels, nBlockAlign, recording, audioDataSize,
               framesCaptured, hdrDataSize, hdrChunkSize>>
extVars == <<pacerVars, audioVars>>

FrameItem(f, p) == [frame |-> f, pts |-> p]

\* ---- FrameQueue ----
QPushBack(qq, it) == Append(qq, it)
\* variant: pop takes the newest item
QFront_Back(qq) == qq[Len(qq)]
QFront(qq) == Head(qq)
QPopFront(qq) == Tail(qq)
\* the loop condition of pop(): q.empty() && !stopRecording
\* variant: pop never waits
PopMustWait_Never(qq, stop) == FALSE
PopMustWait(qq, stop) == qq = <<>> /\ ~stop
\* if (q.empty()) return false;
PopEndOfStream(qq) == qq = <<>>

\* ---- FramePool ----
PoolInit == [i \in 1..PoolSize |-> i]
PoolExhausted(fr) == fr = <<>>
\* variant: acquire hands out the back of the free set but removes the front
PoolAcquired_Back(fr) == fr[Len(fr)]
PoolAcquired(fr) == Head(fr)
\* variant: acquire leaves the frame in the free set
PoolAfterAcquire_NoPop(fr) == fr
PoolAfterAcquire(fr) == Tail(fr)
PoolAfterRelease(fr, f) == Append(fr, f)

PipelineInit ==
    /\ stopRecording = FALSE
    /\ q = <<>>
    /\ mtxHeld = FALSE
    /\ freeFrames = PoolInit
    /\ pcMain = "check"
    /\ frameYUV = NoFrame
    /\ frameCounter = 0
    /\ pcEnc = "loop"
    /\ item = NoFrame
    /\ popRes = "none"
    /\ sendFailed = FALSE
    /\ iterOutcome = "none"
    /\ pushedHist = <<>>
    /\ poppedHist = <<>>
    /\ encBuf = <<>>
    /\ written = <<>>
    /\ writeFailed = FALSE
    /\ anyDrop = FALSE

\* auto nextFrameTime = high_resolution_clock::now();
PacerInit ==
    /\ clock = 0
    /\ now = 0
    /\ nextFrameTime = 0
    /\ skipCount = 0
    /\ behind = FALSE
    /\ prevDeadline = 0
    /\ counterBefore = 0

\* the audio recorder after WriteWAVHeader(outFile, ..., 16, 0), for a mix
\* format of ch channels and bytes bytes per sample
AudioInit(ch, bytes) ==
    /\ pcAudio = "poll"
    /\ nChannels = ch
    /\ nBlockAlign = ch * bytes
    /\ recording = TRUE
    /\ audioDataSize = 0
    /\ framesCaptured = 0
    /\ hdrDataSize = 0
    /\ hdrChunkSize = WavHeaderRest + 0

Init ==
    /\ PipelineInit
    /\ PacerInit
    /\ AudioInit(2, 4)

\* ---- SIGINT ----
signalHandler ==
    /\ ~stopRecording
    /\ stopRecording' = TRUE
    /\ UNCHANGED <<q, mtxHeld, freeFrames, pcMain, frameYUV, frameCounter,
                   pcEnc, item, popRes, sendFailed, iterOutcome, pushedHist,
                   poppedHist, encBuf, written, writeFailed, anyDrop>>
    /\ UNCHANGED extVars

muxVars == <<encBuf, written, writeFailed>>
encVars == <<pcEnc, item, popRes, sendFailed, poppedHist, muxVars>>
mainVars == <<pcMain, frameYUV, frameCounter, iterOutcome, pushedHist, anyDrop>>

\* ---- main: the capture loop ----
\* variant: a set stop indicator may be missed for one more iteration
MainCheck_MayMissStop ==
    /\ pcMain = "check"
    /\ \/ /\ stopRecording
          /\ pcMain' = "join"
       \/ /\ frameCounter < MaxCounter
          /\ pcMain' = "capture"
    /\ UNCHANGED <<stopRecording, q, mtxHeld, freeFrames, frameYUV, frameCounter,
                   iterOutcome, pushedHist, anyDrop>>
    /\ UNCHANGED encVars
    /\ UNCHANGED extVars

\* while (!stopRecording)
MainCheck ==
    /\ pcMain = "check"
    /\ IF stopRecording
       THEN pcMain' = "join"
       ELSE /\ frameCounter < MaxCounter
            /\ pcMain' = "capture"
    /\ UNCHANGED <<stopRecording, q, mtxHeld, freeFrames, frameYUV, frameCounter,
                   iterOutcome, pushedHist, anyDrop>>
    /\ UNCHANGED encVars
    /\ UNCHANGED extVars

\* the pacer step followed by AcquireNextFrame
MainCapture ==
    /\ pcMain = "capture"
    /\ \E skipped \in 0..MaxSkip :
         /\ frameCounter + skipped < MaxCounter
         /\ frameCounter' = frameCounter + skipped
    /\ \E gotFrame \in BOOLEAN :
         IF gotFrame
         THEN /\ pcMain' = "acquire"
              /\ UNCHANGED <<iterOutcome, anyDrop>>
         ELSE /\ pcMain' = "check"
              /\ iterOutcome' = "timeout"
              /\ anyDrop' = TRUE
    /\ UNCHANGED <<stopRecording, q, mtxHeld, freeFrames, frameYUV, pushedHist>>
    /\ UNCHANGED encVars
    /\ UNCHANGED extVars

\* variant: an exhausted pool ends the capture loop
MainAcquire_Fatal ==
    /\ pcMain = "acquire"
    /\ IF PoolExhausted(freeFrames)
       THEN /\ pcMain' = "join"
            /\ iterOutcome' = "poolEmpty"
            /\ anyDrop' = TRUE
            /\ UNCHANGED <<freeFrames, frameYUV>>
       ELSE /\ frameYUV' = PoolAcquired(freeFrames)
            /\ freeFrames' = PoolAfterAcquire(freeFrames)
            /\ pcMain' = "scale"
            /\ UNCHANGED <<iterOutcome, anyDrop>>
    /\ UNCHANGED <<stopRecording, q, mtxHeld, frameCounter, pushedHist>>
    /\ UNCHANGED encVars
    /\ UNCHANGED extVars

\* AVFrame* frameYUV = framePool.acquire(); if (!frameYUV) { ...; continue; }
MainAcquire ==
    /\ pcMain = "acquire"
    /\ IF PoolExhausted(freeFrames)
       THEN /\ pcMain' = "check"
            /\ iterOutcome' = "poolEmpty"
            /\ anyDrop' = TRUE
            /\ UNCHANGED <<freeFrames, frameYUV>>
       ELSE /\ frameYUV' = PoolAcquired(freeFrames)
            /\ freeFrames' = PoolAfterAcquire(freeFrames)
            /\ pcMain' = "scale"
            /\ UNCHANGED <<iterOutcome, anyDrop>>
    /\ UNCHANGED <<stopRecording, q, mtxHeld, frameCounter, pushedHist>>
    /\ UNCHANGED encVars
    /\ UNCHANGED extVars

\* sws_scale into frameYUV; on failure release the frame and continue
MainScale ==
    /\ pcMain = "scale"
    /\ \E scaled \in BOOLEAN :
         IF scaled
         THEN /\ pcMain' = "push"
              /\ UNCHANGED <<freeFrames, frameYUV, iterOutcome, anyDrop>>
         ELSE /\ freeFrames' = PoolAfterRelease(freeFrames, frameYUV)
              /\ frameYUV' = NoFrame
              /\ iterOutcome' = "scaleFailed"
              /\ anyDrop' = TRUE
              /\ pcMain' = "check"
    /\ UNCHANGED <<stopRecording, q, mtxHeld, frameCounter, pushedHist>>
    /\ UNCHANGED encVars
    /\ UNCHANGED extVars

\* frameYUV->pts = frameCounter++; frameQueue.push({frameYUV, frameYUV->pts});
\* push takes mtx, appends and calls cv.notify_one()
MainPush ==
    /\ pcMain = "push"
    /\ ~mtxHeld
    /\ q' = QPushBack(q, FrameItem(frameYUV, frameCounter))
    /\ pushedHist' = Append(pushedHist, frameCounter)
    /\ frameCounter' = frameCounter + 1
    /\ frameYUV' = NoFrame
    /\ iterOutcome' = "pushed"
    /\ pcMain' = "check"
    /\ pcEnc' = IF pcEnc = "waiting" THEN "woken" ELSE pcEnc
    /\ UNCHANGED <<stopRecording, mtxHeld, freeFrames, item, popRes, sendFailed,
                   poppedHist, anyDrop>>
    /\ UNCHANGED muxVars
    /\ UNCHANGED extVars

\* encoderThread.join()
MainJoin ==
    /\ pcMain = "join"
    /\ pcEnc = "done"
    /\ pcMain' = "trailer"
    /\ UNCHANGED <<stopRecording, q, mtxHeld, freeFrames, frameYUV, frameCounter,
                   iterOutcome, pushedHist, anyDrop>>
    /\ UNCHANGED encVars
    /\ UNCHANGED extVars

\* av_write_trailer(outCtx) and the frees after it
MainTrailer ==
    /\ pcMain = "trailer"
    /\ pcMain' = "finished"
    /\ UNCHANGED <<stopRecording, q, mtxHeld, freeFrames, frameYUV, frameCounter,
                   iterOutcome, pushedHist, anyDrop>>
    /\ UNCHANGED encVars
    /\ UNCHANGED extVars

MainNext ==
    \/ MainCheck
    \/ MainCapture
    \/ MainAcquire
    \/ MainScale
    \/ MainPush
    \/ MainJoin
    \/ MainTrailer

\* ---- the encoder thread ----
\* while (!stopRecording || ...): the left operand
EncLoop ==
    /\ pcEnc = "loop"
    /\ pcEnc' = IF stopRecording THEN "loopEmpty" ELSE "popLock"
    /\ UNCHANGED <<stopRecording, q, mtxHeld, freeFrames, item, popRes, sendFailed,
                   poppedHist>>
    /\ UNCHANGED mainVars
    /\ UNCHANGED muxVars
    /\ UNCHANGED extVars

\* while (... || !frameQueue.empty()): the right operand, taken under mtx
EncLoopEmpty ==
    /\ pcEnc = "loopEmpty"
    /\ ~mtxHeld
    /\ pcEnc' = IF q = <<>> THEN "flush" ELSE "popLock"
    /\ UNCHANGED <<stopRecording, q, mtxHeld, freeFrames, item, popRes, sendFailed,
                   poppedHist>>
    /\ UNCHANGED mainVars
    /\ UNCHANGED muxVars
    /\ UNCHANGED extVars

\* pop: std::unique_lock<std::mutex> lock(mtx); also the re-lock after cv.wait
EncPopLock ==
    /\ pcEnc \in {"popLock", "woken"}
    /\ ~mtxHeld
    /\ mtxHeld' = TRUE
    /\ pcEnc' = "popTest"
    /\ UNCHANGED <<stopRecording, q, freeFrames, item, popRes, sendFailed,
                   poppedHist>>
    /\ UNCHANGED mainVars
    /\ UNCHANGED muxVars
    /\ UNCHANGED extVars

\* pop: while (q.empty() && !stopRecording)
EncPopTest ==
    /\ pcEnc = "popTest"
    /\ pcEnc' = IF PopMustWait(q, stopRecording) THEN "popWait" ELSE "popRet"
    /\ UNCHANGED <<stopRecording, q, mtxHeld, freeFrames, item, popRes, sendFailed,
                   poppedHist>>
    /\ UNCHANGED mainVars
    /\ UNCHANGED muxVars
    /\ UNCHANGED extVars

\* pop: cv.wait(lock) releases mtx and blocks
EncPopWait ==
    /\ pcEnc = "popWait"
    /\ mtxHeld' = FALSE
    /\ pcEnc' = "waiting"
    /\ UNCHANGED <<stopRecording, q, freeFrames, item, popRes, sendFailed,
                   poppedHist>>
    /\ UNCHANGED mainVars
    /\ UNCHANGED muxVars
    /\ UNCHANGED extVars

\* a condition variable may wake without a notify
EncSpuriousWake ==
    /\ pcEnc = "waiting"
    /\ pcEnc' = "woken"
    /\ UNCHANGED <<stopRecording, q, mtxHeld, freeFrames, item, popRes, sendFailed,
                   poppedHist>>
    /\ UNCHANGED mainVars
    /\ UNCHANGED muxVars
    /\ UNCHANGED extVars

\* pop: if (q.empty()) return false; item = q.front(); q.pop(); return true;
\* and the caller's  if (!frameQueue.pop(item)) continue;
EncPopReturn ==
    /\ pcEnc = "popRet"
    /\ mtxHeld' = FALSE
    /\ IF PopEndOfStream(q)
       THEN /\ popRes' = "eos"
            /\ pcEnc' = "loop"
            /\ UNCHANGED <<q, item, poppedHist>>
       ELSE /\ popRes' = "frame"
            /\ item' = QFront(q).frame
            /\ poppedHist' = Append(poppedHist, QFront(q).pts)
            /\ q' = QPopFront(q)
            /\ pcEnc' = "send"
    /\ UNCHANGED <<stopRecording, freeFrames, sendFailed>>
    /\ UNCHANGED mainVars
    /\ UNCHANGED muxVars
    /\ UNCHANGED extVars

\* ---- the encoder and the muxer, as the calls of the lambda use them ----
\* avcodec_send_frame: an accepted frame joins the frames the encoder holds
EncoderAccept(buf, pts) == Append(buf, pts)
\* avcodec_receive_packet until it stops returning 0: the encoder hands out
\* its oldest frames as packets and keeps `keep` of them buffered; when it is
\* draining (end of stream was sent to it) it hands out all of them
EncoderEmitted(buf, draining, keep) ==
    IF draining THEN buf ELSE SubSeq(buf, 1, Len(buf) - keep)
EncoderKept(buf, draining, keep) ==
    IF draining THEN <<>> ELSE SubSeq(buf, Len(buf) - keep + 1, Len(buf))
\* av_interleaved_write_frame per packet: the packets whose write succeeded
RECURSIVE PacketsWritten(_, _, _)
PacketsWritten(pkts, failed, i) ==
    IF i > Len(pkts) THEN <<>>
    ELSE (IF i \in failed THEN <<>> ELSE <<pkts[i]>>)
            \o PacketsWritten(pkts, failed, i + 1)
\* the lambda never calls avcodec_send_frame(codecCtx, nullptr)
FlushDraining == FALSE
\* item.pts of the frame the encoder thread holds
ItemPts == poppedHist[Len(poppedHist)]
MinOf(a, b) == IF a < b THEN a ELSE b

\* if (avcodec_send_frame(codecCtx, item.frame) < 0) { ...; break; }
EncSend ==
    /\ pcEnc = "send"
    /\ \E ok \in BOOLEAN :
         IF ok
         THEN /\ pcEnc' = "receive"
              /\ encBuf' = EncoderAccept(encBuf, ItemPts)
              /\ UNCHANGED sendFailed
         ELSE /\ pcEnc' = "flush"
              /\ sendFailed' = TRUE
              /\ UNCHANGED encBuf
    /\ UNCHANGED <<stopRecording, q, mtxHeld, freeFrames, item, popRes, poppedHist,
                   written, writeFailed>>
    /\ UNCHANGED mainVars
    /\ UNCHANGED extVars

\* the receive_packet / write_frame loop (the result of the write is not
\* looked at), then framePool.release(item.frame)
EncRelease ==
    /\ pcEnc = "receive"
    /\ \E keep \in 0..MinOf(Lookahead, Len(encBuf)) :
         LET pkts == EncoderEmitted(encBuf, FALSE, keep) IN
         /\ encBuf' = EncoderKept(encBuf, FALSE, keep)
         /\ \E failed \in SUBSET (1..Len(pkts)) :
              /\ written' = written \o PacketsWritten(pkts, failed, 1)
              /\ writeFailed' = (writeFailed \/ failed # {})
    /\ freeFrames' = PoolAfterRelease(freeFrames, item)
    /\ item' = NoFrame
    /\ pcEnc' = "loop"
    /\ UNCHANGED <<stopRecording, q, mtxHeld, popRes, sendFailed, poppedHist>>
    /\ UNCHANGED mainVars
    /\ UNCHANGED extVars

\* the flush loop after the consume loop: avcodec_receive_packet on an encoder
\* that was not told to drain and got no input since it last returned EAGAIN;
\* then the lambda returns
EncFlush ==
    /\ pcEnc = "flush"
    /\ LET pkts == EncoderEmitted(encBuf, FlushDraining, Len(encBuf)) IN
         /\ encBuf' = EncoderKept(encBuf, FlushDraining, Len(encBuf))
         /\ \E failed \in SUBSET (1..Len(pkts)) :
              /\ written' = written \o PacketsWritten(pkts, failed, 1)
              /\ writeFailed' = (writeFailed \/ failed # {})
    /\ pcEnc' = "done"
    /\ UNCHANGED <<stopRecording, q, mtxHeld, freeFrames, item, popRes, sendFailed,
                   poppedHist>>
    /\ UNCHANGED mainVars
    /\ UNCHANGED extVars

\* the steps of the encoder thread that its own execution takes
EncRun ==
    \/ EncLoop
    \/ EncLoopEmpty
    \/ EncPopLock
    \/ EncPopTest
    \/ EncPopWait
    \/ EncPopReturn
    \/ EncSend
    \/ EncRelease
    \/ EncFlush

Next ==
    \/ signalHandler
    \/ MainNext
    \/ EncRun
    \/ EncSpuriousWake

Spec == Init /\ [][Next]_vars

\* both threads are scheduled fairly; a spurious wake-up and SIGINT are never owed
FairSpec == Spec /\ WF_vars(MainNext) /\ WF_vars(EncRun)

\* ---- the pacer of the capture loop, against the clock ----
\* const auto frameInterval = std::chrono::milliseconds(1000 / targetFPS);
FrameIntervalMs == 1000 \div targetFPS
FrameIntervalTicks == FrameIntervalMs * TicksPerMs
MaxClock == MaxClockMs * TicksPerMs
MaxOf(a, b) == IF a > b THEN a ELSE b

\* now > nextFrameTime + frameInterval
Behind(nw, next) == nw > next + FrameIntervalTicks
\* duration_cast<milliseconds>(now - nextFrameTime).count()
LagMs(nw, next) == (nw - next) \div TicksPerMs
\* variant: the lag is divided in clock ticks, without the cast to milliseconds
SkipCount_NoCast(nw, next) == (nw - next) \div FrameIntervalMs
\* ... / frameInterval.count()
SkipCount(nw, next) == LagMs(nw, next) \div FrameIntervalMs
\* nextFrameTime += frameInterval * (skipCount + 1)
CatchUpDeadline(next, skip) == next + FrameIntervalTicks * (skip + 1)
\* nextFrameTime += frameInterval
OnTimeDeadline(next) == next + FrameIntervalTicks

pacerFrame == <<stopRecording, q, mtxHeld, freeFrames, frameYUV, pushedHist,
                anyDrop, encVars, audioVars>>

\* lines 252-261: sample the clock, then catch up or sleep until the deadline
PacerStep ==
    /\ pcMain = "check"
    /\ ~stopRecording
    /\ \E t \in clock..MaxClock :
         /\ now' = t
         /\ IF Behind(t, nextFrameTime)
            THEN /\ skipCount' = SkipCount(t, nextFrameTime)
                 /\ frameCounter' = frameCounter + SkipCount(t, nextFrameTime)
                 /\ nextFrameTime' =
                        CatchUpDeadline(nextFrameTime, SkipCount(t, nextFrameTime))
                 /\ behind' = TRUE
                 /\ clock' = t
            ELSE /\ MaxOf(t, nextFrameTime) <= MaxClock
                 /\ clock' = MaxOf(t, nextFrameTime)
                 /\ nextFrameTime' = OnTimeDeadline(nextFrameTime)
                 /\ skipCount' = 0
                 /\ behind' = FALSE
                 /\ UNCHANGED frameCounter
    /\ prevDeadline' = nextFrameTime
    /\ counterBefore' = frameCounter
    /\ pcMain' = "capture"
    /\ UNCHANGED iterOutcome
    /\ UNCHANGED pacerFrame

\* lines 263-308 as the pacer sees them: the iteration ends with a push
\* (frameCounter++) or with one of the three continue statements; the time it
\* takes shows in the next reading of the clock
PacerIterationEnd ==
    /\ pcMain = "capture"
    /\ \E outcome \in {"timeout", "poolEmpty", "scaleFailed", "pushed"} :
         /\ iterOutcome' = outcome
         /\ frameCounter' = IF outcome = "pushed" THEN frameCounter + 1
                            ELSE frameCounter
    /\ pcMain' = "check"
    /\ UNCHANGED <<clock, now, nextFrameTime, skipCount, behind, prevDeadline,
                   counterBefore>>
    /\ UNCHANGED pacerFrame

PacerNext ==
    \/ PacerStep
    \/ PacerIterationEnd

PacerSpec == Init /\ [][PacerNext]_vars

\* ---- the audio recorder (audio09i2.cpp) ----
Channels == 1..MaxChannels
\* bytes per sample of the mix format: 16-bit PCM or 32-bit float
MixSampleBytes == {2, 4}

\* the conversion loop: two push_back calls per sample, numFrames * nChannels
\* samples (only the number of bytes is followed, not their values)
RECURSIVE ConvertedSize(_, _, _)
ConvertedSize(size, i, count) ==
    IF i >= count THEN size ELSE ConvertedSize(size + 2, i + 1, count)
\* audioData.insert(audioData.end(), numFrames * pwfx->nBlockAlign, 0)
SilentSize(size, numFrames, blockAlign) == size + numFrames * blockAlign
\* WriteWAVHeader: header.dataSize and header.chunkSize (uint32_t; the sizes
\* followed here stay far below 2^32)
HeaderDataSize(dataSize) == dataSize
HeaderChunkSize(dataSize) == WavHeaderRest + dataSize

audioFrame == <<stopRecording, q, mtxHeld, freeFrames, mainVars, encVars, pacerVars>>

\* while (recording) { GetNextPacketSize(&packetLength) ...
AudioPoll ==
    /\ pcAudio = "poll"
    /\ IF ~recording
       THEN pcAudio' = "finalize"
       ELSE \E result \in {"failed", "empty", "packet"} :
              pcAudio' = CASE result = "failed" -> "finalize"
                           [] result = "empty" -> "key"
                           [] result = "packet" -> "packet"
    /\ UNCHANGED <<nChannels, nBlockAlign, recording, audioDataSize, framesCaptured,
                   hdrDataSize, hdrChunkSize>>
    /\ UNCHANGED audioFrame

\* the body of while (packetLength != 0): GetBuffer, convert or fill with
\* zeros, ReleaseBuffer, GetNextPacketSize
AudioPacket ==
    /\ pcAudio = "packet"
    /\ \E gotBuffer \in BOOLEAN :
         IF ~gotBuffer
         THEN /\ pcAudio' = "key"
              /\ UNCHANGED <<audioDataSize, framesCaptured>>
         ELSE \E numFrames \in 0..MaxPacketFrames, silent \in BOOLEAN :
                /\ framesCaptured + numFrames <= MaxAudioFrames
                /\ framesCaptured' = framesCaptured + numFrames
                /\ audioDataSize' =
                     IF silent
                     THEN SilentSize(audioDataSize, numFrames, nBlockAlign)
                     ELSE ConvertedSize(audioDataSize, 0, numFrames * nChannels)
                /\ \E morePackets \in BOOLEAN :
                     pcAudio' = IF morePackets THEN "packet" ELSE "key"
    /\ UNCHANGED <<nChannels, nBlockAlign, recording, hdrDataSize, hdrChunkSize>>
    /\ UNCHANGED audioFrame

\* if (GetAsyncKeyState(VK_RETURN) & 0x8000) recording = false; Sleep(10);
AudioKey ==
    /\ pcAudio = "key"
    /\ \E pressed \in BOOLEAN : recording' = (recording /\ ~pressed)
    /\ pcAudio' = "poll"
    /\ UNCHANGED <<nChannels, nBlockAlign, audioDataSize, framesCaptured,
                   hdrDataSize, hdrChunkSize>>
    /\ UNCHANGED audioFrame

\* seekp(0); WriteWAVHeader(..., 16, audioData.size()); write the data
AudioFinalize ==
    /\ pcAudio = "finalize"
    /\ hdrDataSize' = HeaderDataSize(audioDataSize)
    /\ hdrChunkSize' = HeaderChunkSize(audioDataSize)
    /\ pcAudio' = "done"
    /\ UNCHANGED <<nChannels, nBlockAlign, recording, audioDataSize, framesCaptured>>
    /\ UNCHANGED audioFrame

AudioNext ==
    \/ AudioPoll
    \/ AudioPacket
    \/ AudioKey
    \/ AudioFinalize

AudioSpecInit ==
    /\ PipelineInit
    /\ PacerInit
    /\ \E ch \in Channels, bytes \in MixSampleBytes : AudioInit(ch, bytes)

AudioSpec == AudioSpecInit /\ [][AudioNext]_vars

\* ---- helpers of the properties ----
RECURSIVE CountIn(_, _)
CountIn(sq, f) ==
    IF sq = <<>> THEN 0
    ELSE (IF Head(sq) = f THEN 1 ELSE 0) + CountIn(Tail(sq), f)

QueuedFrames == [i \in 1..Len(q) |-> q[i].frame]
QueuedPts == [i \in 1..Len(q) |-> q[i].pts]
HeldByCapture == IF frameYUV = NoFrame THEN 0 ELSE 1
HeldByEncoder == IF item = NoFrame THEN 0 ELSE 1
ConsumerStopped == pcEnc \in {"flush", "done"}

\* C1: when both threads have finished, no frame is left in the queue or
\* checked out: the free set again holds all PoolSize frames.
C1_NoLeakOnShutdown ==
    pcMain = "finished" =>
        /\ q = <<>>
        /\ frameYUV = NoFrame
        /\ item = NoFrame
        /\ Len(freeFrames) = PoolSize

\* C2: once the stop indicator is set, under fair scheduling the encoder
\* thread exits, join returns and the trailer is written.
C2_StopLeadsToTrailer == stopRecording ~> (pcMain = "finished")

\* C3: whenever the consumer has left its consume loop, the stop indicator
\* is set and the queue is empty.
C3_StoppedImpliesDrained ==
    ConsumerStopped => (stopRecording /\ q = <<>>)

\* C4: frames held by the capture loop + frames in the queue + frames held
\* by the encoder thread never exceed the pool capacity, and so neither does
\* the queue length.
C4_BoundedOwnership ==
    /\ HeldByCapture + Len(q) + HeldByEncoder <= PoolSize
    /\ Len(q) <= PoolSize

C4_Witness ==
    /\ Len(q) = PoolSize
    /\ pcMain = "check"
    /\ iterOutcome = "pushed"

\* C5: frames are popped in the order they were pushed, none reordered,
\* duplicated or skipped: the pushes are the pops followed by what is queued.
C5_StrictFIFO == pushedHist = poppedHist \o QueuedPts

C5_Witness ==
    /\ Len(poppedHist) >= 2
    /\ Len(q) >= 1
    /\ popRes = "frame"

\* C6: every pool frame is in exactly one of the free set, the capture
\* loop, the queue and the encoder thread, and the frame the capture loop
\* writes is one it holds.
C6_ExclusiveOwnership ==
    /\ \A f \in Frames :
          CountIn(freeFrames, f) + CountIn(QueuedFrames, f)
            + (IF frameYUV = f THEN 1 ELSE 0) + (IF item = f THEN 1 ELSE 0) = 1
    /\ pcMain \in {"scale", "push"} <=> frameYUV \in Frames

C6_Witness ==
    /\ pcMain = "scale"
    /\ item # NoFrame
    /\ Len(poppedHist) >= 2

\* C7: once the stop indicator is set, no frame is appended to the queue.
C7_NoPushAfterStop == [][stopRecording => Len(q') <= Len(q)]_vars

\* C8: pop returns end-of-stream only when stop is set and the queue is
\* empty, and returns the head frame whenever the queue is not empty.
C8_PopSemantics ==
    [][(pcEnc = "popRet" /\ pcEnc' # "popRet") =>
          /\ q = <<>> => (popRes' = "eos" /\ stopRecording /\ q' = q /\ item' = item)
          /\ q # <<>> => /\ popRes' = "frame"
                         /\ item' = Head(q).frame
                         /\ q' = Tail(q)]_vars

C8_Witness ==
    /\ popRes = "eos"
    /\ Len(poppedHist) >= 1
    /\ pcEnc = "loop"

\* C9: acquire on an empty free set does not block; it leaves pool and
\* queue unchanged, and the capture loop goes on to its next iteration.
C9_ExhaustedIsDrop ==
    /\ [](pcMain = "acquire" => ENABLED MainAcquire)
    /\ [][(pcMain = "acquire" /\ freeFrames = <<>> /\ pcMain' # pcMain) =>
            /\ pcMain' = "check"
            /\ UNCHANGED <<freeFrames, q, frameYUV, frameCounter, pushedHist>>]_vars

C9_Witness ==
    /\ iterOutcome = "poolEmpty"
    /\ pcMain = "capture"

\* C10: when avcodec_send_frame fails, the worker stops consuming and the
\* stop indicator is set by the time the worker has exited.
C10_EncodeFailureSignalsStop ==
    (sendFailed /\ pcEnc = "done") => stopRecording

\* ---- helpers of the encoder and producer properties ----
StrictlyIncreasing(sq) == \A i \in 1..(Len(sq) - 1) : sq[i] < sq[i + 1]
MainExited == pcMain \in {"join", "trailer", "finished"}

\* C11: once a packet write has failed, the worker pops no further frame
\* from the queue.
C11_WriteFailureStopsWorker ==
    [][writeFailed => poppedHist' = poppedHist]_vars

\* C12: outside the acquire-to-push part of an iteration the capture loop
\* holds no frame, and once the consumer has left its loop it holds no frame:
\* every acquired or popped frame was pushed or released.
C12_NoLeakOnExit ==
    /\ pcMain \notin {"scale", "push"} => frameYUV = NoFrame
    /\ ConsumerStopped => item = NoFrame

\* C14: in a finished run without drops, encode or write failures, the pts of
\* the written packets are strictly increasing and at least
\* (frames pushed - Lookahead) packets were written.
C14_EndToEnd ==
    (pcMain = "finished" /\ ~anyDrop /\ ~sendFailed /\ ~writeFailed) =>
        /\ StrictlyIncreasing(written)
        /\ Len(written) >= Len(pushedHist) - Lookahead

\* C15: when the trailer has been written the encoder holds no buffered
\* frame: every accepted frame had its packet handed to the muxer.
C15_FlushBeforeTrailer ==
    pcMain = "finished" => encBuf = <<>>

\* C16: the capture loop leaves only at the iteration boundary, only on
\* reading the stop indicator as set, always when it reads it as set, and
\* after leaving it acquires and pushes nothing.
C16_ProducerCancellation ==
    /\ [](MainExited => stopRecording /\ frameYUV = NoFrame)
    /\ [][(pcMain = "check" /\ stopRecording /\ pcMain' # pcMain) =>
             pcMain' = "join"]_vars
    /\ [][(pcMain' = "join" /\ pcMain # "join") => pcMain = "check"]_vars
    /\ [][MainExited =>
             /\ MainExited'
             /\ pushedHist' = pushedHist
             /\ frameYUV' = frameYUV]_vars

C16_Witness ==
    /\ pcMain = "finished"
    /\ Len(pushedHist) >= 2
    /\ iterOutcome = "pushed"

\* C13: an iteration whose pacer step took the catch-up branch advances the
\* frame counter by skipCount + 1, with skipCount the floor of the lag over
\* the frame interval, and the deadline by skipCount + 1 intervals, whatever
\* the outcome of the iteration.
C13_CatchUpAdvance ==
    (pcMain = "check" /\ iterOutcome # "none" /\ behind) =>
        /\ skipCount = (now - prevDeadline) \div FrameIntervalTicks
        /\ frameCounter = counterBefore + skipCount + 1
        /\ nextFrameTime = prevDeadline + FrameIntervalTicks * (skipCount + 1)

\* C17: at every iteration boundary the deadline is the start time plus
\* frameCounter frame intervals.
C17_PtsAlignedWithDeadline ==
    pcMain = "check" => nextFrameTime = 0 + FrameIntervalTicks * frameCounter

\* C18: after the pacer step the new deadline is not before the sampled time;
\* in the catch-up branch skipCount >= 1 and the new deadline lies in
\* (now, now + frameInterval], with frameInterval = 1000 / targetFPS ms.
C18_DeadlineRealigned ==
    pcMain = "capture" =>
        /\ nextFrameTime >= now
        /\ behind => /\ skipCount >= 1
                     /\ now < nextFrameTime
                     /\ nextFrameTime <= now + (1000 \div 30) * TicksPerMs

C18_Witness ==
    /\ pcMain = "capture"
    /\ behind
    /\ skipCount = 3
    /\ (now - prevDeadline) % TicksPerMs # 0

\* C19: the recorded data holds 2 bytes per channel for every frame
\* captured, silent or not, and the final header carries that size and
\* chunkSize = 36 + dataSize.
C19_AudioByteAccounting ==
    /\ audioDataSize = framesCaptured * nChannels * 2
    /\ pcAudio = "done" =>
         /\ hdrDataSize = framesCaptured * nChannels * 2
         /\ hdrChunkSize = 36 + hdrDataSize

TypeOK ==
    /\ stopRecording \in BOOLEAN
    /\ mtxHeld \in BOOLEAN
    /\ frameYUV \in Frames \cup {NoFrame}
    /\ item \in Frames \cup {NoFrame}
    /\ frameCounter \in 0..MaxCounter
    /\ popRes \in {"none", "frame", "eos"}
====
